---- MODULE Spec2Model ----
(***************************************************************************)
(* A model of BayesBoom.mixtures.BetaBinomialMixture, the Python driver    *)
(* around the BOOM beta-binomial mixture engine                            *)
(* (Interfaces/python/mixtures/BayesBoom/mixtures/beta_binomial_mixture.py).*)
(*                                                                         *)
(* The driver is single threaded.  add_component and add_data are modelled *)
(* as one atomic action each.  mcmc is modelled as McmcBegin (lines 94-102)*)
(* followed by the loop body of lines 103-106, one action per statement    *)
(* (SamplePosterior, RecordDrawStep); no other call can start while a run  *)
(* is in its loop.  The read-only properties (niter, a, b, means, ...) are *)
(* operators over the current state which return either a value or the     *)
(* Python exception the property raises.                                   *)
(*                                                                         *)
(* The engine (BayesBoom.boom) and numpy are not part of the Python file;  *)
(* the engine is modelled from its collaborator contract: it holds one     *)
(* (a, b) pair per component, a mixing-weight vector and the data rows it  *)
(* was given.  numpy arrays are records [tag, nrow, ncol, cell] so that an *)
(* array with zero rows still has a column count.                          *)
(***************************************************************************)
EXTENDS Integers, Sequences, FiniteSets, TLC

\* ---------------------------------------------------------------- bounds
MaxComponents == 2      \* add_component calls in one behaviour
MaxIter == 2            \* largest niter argument passed to mcmc
MaxMcmcCalls == 2       \* mcmc calls in one behaviour
MaxDataCalls == 1       \* add_data calls in one behaviour

\* ------------------------------------------------------- numpy arrays
\* The content of a cell of np.empty(...) before it is assigned.
Uninit == -1
\* What an out-of-range read of an engine component yields when it does not raise.
Junk == -2

\* An attribute that holds no array: tag "unset" (no such attribute) or "None".
NoArray(tag) == [tag |-> tag, nrow |-> 0, ncol |-> 0, cell |-> <<>>]

\* np.empty((nrow, ncol)): an array of the given shape, contents uninitialised.
NpEmpty(nrow, ncol) ==
    [tag |-> "array", nrow |-> nrow, ncol |-> ncol,
     cell |-> [r \in 1..nrow |-> [c \in 1..ncol |-> Uninit]]]

\* array[i, :] = row, with i a 0-based Python index.
SetRow(arr, i, row) == [arr EXCEPT !.cell[i + 1] = row]

\* ------------------------------------------------------------ inputs
MeanPriors == {"BetaPrior(1,1)"}
SampleSizePriors == {"UniformPrior(0.1,1000)"}
PriorCounts == {1}
NoSeed == 0
Seeds == {NoSeed, 7}
\* The posterior draws the engine can produce in one sample_posterior step.
PosteriorDraws == {1, 2}

\* Tables handed to add_data.  kind is the Python type of the argument,
\* castable says whether every cell converts to int.
Table(kind, ncol, castable, rows) ==
    [kind |-> kind, ncol |-> ncol, castable |-> castable, rows |-> rows]
Tables ==
    { Table("ndarray", 3, TRUE, << <<10, 4, 28>> >>),
      Table("DataFrame", 3, TRUE, << <<10, 4, 28>>, <<5, 0, 2>> >>),
      Table("ndarray", 3, TRUE, <<>>),
      Table("ndarray", 2, TRUE, << <<10, 4>> >>),
      Table("ndarray", 4, TRUE, << <<10, 4, 28, 99>> >>),
      Table("ndarray", 3, TRUE, << <<10, -4, 28>> >>),
      Table("ndarray", 3, FALSE, << <<10, 4, 28>> >>) }

VARIABLES
    components,        \* self._components: list of dicts
    prior_counts,      \* self._mixing_distribution_prior_counts
    mixing_weights,    \* self._mixing_weights (unset until add_component or mcmc)
    boom_model,        \* self._boom_model: None or the engine model
    rng_seed,          \* boom.GlobalRng.rng: the last seed applied, NoSeed if none
    pc,                \* "idle", or the position inside the loop of mcmc
    run,               \* the running / last mcmc call: [niter, k, result]
    i,                 \* the loop variable of mcmc
    last,              \* the last finished call and how it ended
    builds,            \* history: number of _build_boom_model calls so far
    forwarded,         \* history: every row handed to the engine's add_data
    trace,             \* history: the steps of the running / last mcmc call
    prev_run,          \* history: the mcmc call before the running / last one
    calls              \* history: number of calls so far, per operation

vars == <<components, prior_counts, mixing_weights, boom_model, rng_seed,
          pc, run, i, last, builds, forwarded, trace, prev_run, calls>>

\* ------------------------------------------------------------- engine
\* self._boom_model = None
NoModel == [exists |-> FALSE, id |-> 0, components |-> <<>>, probs |-> <<>>,
            data |-> <<>>]

\* _build_boom_model: one BetaBinomialModel(1.0, 1.0) per entry of
\* self._components, a MultinomialModel sized to the prior counts, no data.
\* id tells the instances built during one behaviour apart.
BuildBoomModel(comps, counts, id) ==
    [exists |-> TRUE, id |-> id,
     components |-> [c \in 1..Len(comps) |-> <<1, 1>>],
     probs |-> [c \in 1..Len(counts) |-> 0],
     data |-> <<>>]

\* The engine's add_data(trials, successes, counts): the rows join the data.
EngineAddData(model, rows) == [model EXCEPT !.data = @ \o rows]

\* The engine's sample_posterior(): the parameters move to posterior draw d.
\* Draw d gives component c the shape (a, b) = (d + c, d) and the weight
\* 10 * d + c, so that both the draws and the components can be told apart.
PosteriorShape(d, c) == <<d + c, d>>
PosteriorWeight(d, c) == 10 * d + c
SamplePosteriorDraw(model, d) ==
    [model EXCEPT
        !.components = [c \in 1..Len(model.components) |-> PosteriorShape(d, c)],
        !.probs = [c \in 1..Len(model.probs) |-> PosteriorWeight(d, c)]]

\* ------------------------------------------------------------- driver
\* The guard of lines 72 and 94: "if self._boom_model is None".
NeedsBuildAlways(model) == TRUE
NeedsBuild(model) == ~model.exists

\* Lines 54 and 60 of add_component: the two appends.
KeepPriorCounts(counts, prior_count) == counts
AppendPriorCount(counts, prior_count) == Append(counts, prior_count)

AppendComponent(comps, mean_prior, sample_size_prior) ==
    Append(comps, [mean_prior |-> mean_prior,
                   sample_size_prior |-> sample_size_prior,
                   draws |-> NoArray("unset")])

\* number_of_mixture_components
number_of_mixture_components == Len(prior_counts)

\* _create_storage(niter): a fresh (niter x 2) table for every component and
\* a fresh (niter x number_of_mixture_components) table of mixing weights.
GrowArray(arr, nrow, ncol) ==
    IF arr.tag = "array"
    THEN [arr EXCEPT !.nrow = @ + nrow,
                     !.cell = @ \o [r \in 1..nrow |-> [c \in 1..ncol |-> Uninit]]]
    ELSE NpEmpty(nrow, ncol)
AppendStorage(comps, weights, counts, niter) ==
    [components |-> [c \in 1..Len(comps) |->
                        [comps[c] EXCEPT !.draws = GrowArray(@, niter, 2)]],
     mixing_weights |-> GrowArray(weights, niter, Len(counts))]
CreateStorage(comps, weights, counts, niter) ==
    [components |-> [c \in 1..Len(comps) |->
                        [comps[c] EXCEPT !.draws = NpEmpty(niter, 2)]],
     mixing_weights |-> NpEmpty(niter, Len(counts))]

\* self._boom_model.mixture_component(c).a / .b for the 1-based component c.
\* The engine has no component c when c > Len(model.components).
HasComponent(model, c) == c <= Len(model.components)
ReadComponent(model, c) ==
    IF HasComponent(model, c) THEN model.components[c] ELSE <<Junk, Junk>>

\* self._mixing_weights[i, :] = probs: numpy accepts a vector of the row's
\* length, and broadcasts a vector of length one.
Broadcastable(probs, ncol) == Len(probs) = ncol \/ Len(probs) = 1
BroadcastRow(probs, ncol) ==
    IF Len(probs) = ncol THEN probs ELSE [c \in 1..ncol |-> probs[1]]

\* _record_draw(i).  raises says whether the engine raises on a read of a
\* component it does not have (otherwise the read yields junk).  The loop over
\* the components stops at the first read that raises; the rows written
\* before it stay written.
RecordDraw(comps, weights, model, row, raises) ==
    LET k == Len(comps)
        bad == {c \in 1..k : ~HasComponent(model, c)}
        stop == IF raises /\ bad # {} THEN Len(model.components) ELSE k
        comps2 == [c \in 1..k |->
                     IF c <= stop
                     THEN [comps[c] EXCEPT
                             !.draws = SetRow(@, row, ReadComponent(model, c))]
                     ELSE comps[c]]
    IN  IF stop < k
        THEN [components |-> comps2, mixing_weights |-> weights,
              result |-> "EngineError"]
        ELSE IF ~Broadcastable(model.probs, weights.ncol)
        THEN [components |-> comps2, mixing_weights |-> weights,
              result |-> "ValueError"]
        ELSE [components |-> comps2,
              mixing_weights |->
                  SetRow(weights, row, BroadcastRow(model.probs, weights.ncol)),
              result |-> "ok"]

\* ------------------------------------------------------------- state
NoTable == Table("none", 0, TRUE, <<>>)
Finished(op, result, warned, data, sent) ==
    [op |-> op, result |-> result, warned |-> warned, data |-> data,
     sent |-> sent]
Run(niter, k, result) == [niter |-> niter, k |-> k, result |-> result]
NoRun == Run(0, 0, "none")
Event(ev, n, d) == [ev |-> ev, i |-> n, d |-> d]

\* __init__ (lines 29-32): _mixing_weights is not assigned.
Init ==
    /\ components = <<>>
    /\ prior_counts = <<>>
    /\ mixing_weights = NoArray("unset")
    /\ boom_model = NoModel
    /\ rng_seed = NoSeed
    /\ pc = "idle"
    /\ run = NoRun
    /\ i = 0
    /\ last = Finished("init", "ok", FALSE, NoTable, 0)
    /\ builds = 0
    /\ forwarded = <<>>
    /\ trace = <<>>
    /\ prev_run = NoRun
    /\ calls = [add |-> 0, data |-> 0, mcmc |-> 0]

\* add_component(mean_prior, sample_size_prior, prior_count), lines 34-60.
add_component(mean_prior, sample_size_prior, prior_count) ==
    /\ pc = "idle"
    /\ calls.add < MaxComponents
    /\ prior_counts' = AppendPriorCount(prior_counts, prior_count)
    /\ mixing_weights' = NoArray("None")
    /\ components' = AppendComponent(components, mean_prior, sample_size_prior)
    /\ last' = Finished("add_component", "ok", FALSE, NoTable, 0)
    /\ calls' = [calls EXCEPT !.add = @ + 1]
    /\ UNCHANGED <<boom_model, rng_seed, pc, run, i, builds, forwarded,
                   trace, prev_run>>

\* Lines 74-75: a DataFrame is replaced by its .values, an ndarray of the
\* same content.
Values(data) ==
    IF data.kind = "DataFrame" THEN [data EXCEPT !.kind = "ndarray"] ELSE data

\* data.astype(int) on line 76 raises on a value that does not convert.
AsTypeInt(data) == IF data.castable THEN "ok" ELSE "ValueError"
\* data[:, 0], data[:, 1], data[:, 2] on line 77: needs three columns; further
\* columns are ignored.
ThreeColumns(data) ==
    IF data.ncol >= 3 THEN [r \in 1..Len(data.rows) |->
                               <<data.rows[r][1], data.rows[r][2], data.rows[r][3]>>]
    ELSE <<>>

\* add_data(data), lines 62-77.
add_data(data) ==
    LET build == NeedsBuild(boom_model)
        model == IF build
                 THEN BuildBoomModel(components, prior_counts, builds + 1)
                 ELSE boom_model
        values == Values(data)
        result == IF AsTypeInt(values) # "ok" THEN AsTypeInt(values)
                  ELSE IF values.ncol < 3 THEN "IndexError"
                  ELSE "ok"
        rows == IF result = "ok" THEN ThreeColumns(values) ELSE <<>>
    IN  /\ pc = "idle"
        /\ calls.data < MaxDataCalls
        /\ calls' = [calls EXCEPT !.data = @ + 1]
        /\ builds' = IF build THEN builds + 1 ELSE builds
        /\ boom_model' = IF result = "ok" THEN EngineAddData(model, rows) ELSE model
        /\ forwarded' = forwarded \o rows
        /\ last' = Finished("add_data", result, FALSE, data, Len(rows))
        /\ UNCHANGED <<components, prior_counts, mixing_weights, rng_seed, pc,
                       run, i, trace, prev_run>>

\* mcmc(niter, seed), lines 94-102: build the model if there is none (and
\* warn), allocate the storage, seed the generator; then enter the loop.
McmcBegin(niter, seed) ==
    LET build == NeedsBuild(boom_model)
        storage == CreateStorage(components, mixing_weights, prior_counts, niter)
    IN  /\ pc = "idle"
        /\ calls.mcmc < MaxMcmcCalls
        /\ calls' = [calls EXCEPT !.mcmc = @ + 1]
        /\ prev_run' = IF calls.mcmc = 0 THEN NoRun
                       ELSE run
        /\ builds' = IF build THEN builds + 1 ELSE builds
        /\ boom_model' = IF build
                         THEN BuildBoomModel(components, prior_counts, builds + 1)
                         ELSE boom_model
        /\ components' = storage.components
        /\ mixing_weights' = storage.mixing_weights
        /\ rng_seed' = IF seed # NoSeed THEN seed ELSE rng_seed
        /\ trace' = <<Event("create_storage", niter, 0)>>
                    \o (IF seed # NoSeed THEN <<Event("seed", seed, 0)>> ELSE <<>>)
        /\ run' = Run(niter, Len(components),
                      IF niter > 0 THEN "running" ELSE "ok")
        /\ i' = 0
        /\ pc' = IF niter > 0 THEN "sample" ELSE "idle"
        /\ last' = Finished("mcmc", IF niter > 0 THEN "running" ELSE "ok",
                            build, NoTable, 0)
        /\ UNCHANGED <<prior_counts, forwarded>>

\* Line 105: self._boom_model.sample_posterior().
SamplePosterior(d) ==
    /\ pc = "sample"
    /\ boom_model' = SamplePosteriorDraw(boom_model, d)
    /\ trace' = Append(trace, Event("sample", i, d))
    /\ pc' = "record"
    /\ UNCHANGED <<components, prior_counts, mixing_weights, rng_seed,
                   run, i, last, builds, forwarded, prev_run, calls>>

\* Line 106: self._record_draw(i), then the next turn of the loop or the
\* end of the call; an exception ends the call.
RecordDrawStep(raises) ==
    LET rec == RecordDraw(components, mixing_weights, boom_model, i, raises)
        done == rec.result # "ok" \/ i + 1 >= run.niter
    IN  /\ pc = "record"
        /\ components' = rec.components
        /\ mixing_weights' = rec.mixing_weights
        /\ trace' = IF rec.result = "ok"
                    THEN Append(trace, Event("record", i, 0)) ELSE trace
        /\ i' = IF done THEN i ELSE i + 1
        /\ pc' = IF done THEN "idle" ELSE "sample"
        /\ last' = IF done THEN [last EXCEPT !.result = rec.result] ELSE last
        /\ run' = IF done THEN [run EXCEPT !.result = rec.result] ELSE run
        /\ UNCHANGED <<prior_counts, boom_model, rng_seed, builds,
                       forwarded, prev_run, calls>>

\* ------------------------------------------------- read-only properties
\* A property either returns a value or raises; error is "none" when it returns.
Returned(value) == [error |-> "none", value |-> value]
Raised(error) == [error |-> error, value |-> NoArray("unset")]

\* niter (lines 115-122).  Reading self._mixing_weights raises AttributeError
\* while no add_component and no mcmc call has assigned it.
niter ==
    IF mixing_weights.tag = "unset" THEN [error |-> "AttributeError", value |-> 0]
    ELSE IF mixing_weights.tag = "None" THEN [error |-> "none", value |-> 0]
    ELSE [error |-> "none", value |-> mixing_weights.nrow]

\* self._components["draws"] (lines 133 and 145): self._components is a list,
\* and a list indexed by a string raises TypeError.
ComponentsDraws == Raised("TypeError")

\* The bodies of a and b (lines 131-134, 143-146): np.empty((niter, k)), then
\* one column assignment per component, each of which evaluates
\* self._components["draws"] first.
ShapeColumnDraws(column) ==
    IF niter.error # "none" THEN Raised(niter.error)
    ELSE IF number_of_mixture_components >= 1 THEN Raised(ComponentsDraws.error)
    ELSE Returned(NpEmpty(niter.value, number_of_mixture_components))

a == ShapeColumnDraws(1)
b == ShapeColumnDraws(2)

\* Element-wise arithmetic on two arrays of one shape.  A quotient is kept as
\* the pair <<numerator, denominator>>.
Plus(u, v) == u + v
MeanOf(u, v) == <<u, u + v>>
ElementwiseSum(x, y) ==
    [x EXCEPT !.cell = [r \in 1..x.nrow |->
                          [c \in 1..x.ncol |-> Plus(x.cell[r][c], y.cell[r][c])]]]
ElementwiseMean(x, y) ==
    [x EXCEPT !.cell = [r \in 1..x.nrow |->
                          [c \in 1..x.ncol |-> MeanOf(x.cell[r][c], y.cell[r][c])]]]

\* means (lines 148-155): a / (a + b).
means ==
    IF a.error # "none" THEN Raised(a.error)
    ELSE IF b.error # "none" THEN Raised(b.error)
    ELSE Returned(ElementwiseMean(a.value, b.value))

\* sample_sizes (lines 157-162): a + b.
sample_sizes ==
    IF a.error # "none" THEN Raised(a.error)
    ELSE IF b.error # "none" THEN Raised(b.error)
    ELSE Returned(ElementwiseSum(a.value, b.value))

\* mixing_weights (lines 164-169): the attribute itself.
mixing_weights_property ==
    IF mixing_weights.tag = "unset" THEN Raised("AttributeError")
    ELSE Returned(mixing_weights)

Next ==
    \/ \E mp \in MeanPriors, sp \in SampleSizePriors, n \in PriorCounts :
          add_component(mp, sp, n)
    \/ \E data \in Tables : add_data(data)
    \/ \E iterations \in 0..MaxIter, seed \in Seeds : McmcBegin(iterations, seed)
    \/ \E d \in PosteriorDraws : SamplePosterior(d)
    \/ \E raises \in BOOLEAN : RecordDrawStep(raises)

Spec == Init /\ [][Next]_vars

\* -------------------------------------------------------------- claims
\* The state right after an mcmc call has returned without an exception.
McmcCompleted == pc = "idle" /\ last.op = "mcmc" /\ last.result = "ok"
\* The state right after an mcmc call has ended, by return or by exception.
McmcEnded == pc = "idle" /\ last.op = "mcmc"

\* The positions in trace of the events of one kind for the 0-based iteration n.
EventsOf(ev, n) == {e \in 1..Len(trace) : trace[e].ev = ev /\ trace[e].i = n}
\* The posterior draw the engine produced in the 1-based iteration r.
DrawAt(r) == trace[CHOOSE e \in EventsOf("sample", r - 1) : TRUE].d
SampleCount == Cardinality({e \in 1..Len(trace) : trace[e].ev = "sample"})

Views == <<a, b, means, sample_sizes, mixing_weights_property>>

\* C1: after mcmc(niter=N) has completed on a driver with k components, each
\* of a, b, means, sample_sizes and mixing_weights reads without error and
\* has exactly N rows and k columns.
C1_DrawMatrixShapes ==
    McmcCompleted =>
        \A v \in 1..Len(Views) :
            /\ Views[v].error = "none"
            /\ Views[v].value.tag = "array"
            /\ Views[v].value.nrow = run.niter
            /\ Views[v].value.ncol = number_of_mixture_components

\* C2: while no mcmc call has been made, niter reads as 0 and a, b, means and
\* sample_sizes read as containers with zero rows, without raising.
C2_EmptyBeforeMcmc ==
    calls.mcmc = 0 =>
        /\ niter.error = "none" /\ niter.value = 0
        /\ \A v \in 1..4 : Views[v].error = "none" /\ Views[v].value.nrow = 0

\* C3: after two successive completed calls mcmc(N1), mcmc(N2) with no
\* add_component in between, niter is N2, every per-component draw table and
\* the mixing-weight table have exactly N2 rows, and each of these rows was
\* written (exactly once) by the second call.
C3_McmcOverwrites ==
    (McmcCompleted /\ prev_run.result = "ok" /\ prev_run.k = run.k) =>
        /\ niter.error = "none" /\ niter.value = run.niter
        /\ mixing_weights.nrow = run.niter
        /\ Len(mixing_weights.cell) = run.niter
        /\ \A c \in 1..Len(components) :
              /\ components[c].draws.nrow = run.niter
              /\ Len(components[c].draws.cell) = run.niter
              /\ \A r \in 1..run.niter :
                    Uninit \notin {components[c].draws.cell[r][x] : x \in 1..2}
        /\ \A r \in 1..run.niter :
              /\ Cardinality(EventsOf("record", r - 1)) = 1
              /\ \A c \in 1..mixing_weights.ncol :
                    mixing_weights.cell[r][c] # Uninit
C3_Witness ==
    /\ McmcCompleted /\ prev_run.result = "ok" /\ prev_run.k = run.k
    /\ prev_run.niter = 2 /\ run.niter = 1 /\ run.k >= 1
    /\ calls.mcmc = 2

\* C4: in every reachable state the component list and the prior-count list
\* both have length k = the number of add_component calls made, which is
\* number_of_mixture_components; a step that is not add_component changes
\* neither length, and add_component appends one entry to each list at the
\* same index, leaving the earlier entries' priors in place.
C4_LengthsAgree ==
    /\ Len(components) = calls.add
    /\ Len(prior_counts) = calls.add
    /\ number_of_mixture_components = calls.add
C4_Step ==
    /\ calls'.add = calls.add =>
          /\ Len(components') = Len(components)
          /\ prior_counts' = prior_counts
    /\ calls'.add # calls.add =>
          /\ calls'.add = calls.add + 1
          /\ DOMAIN components' = 1..(Len(components) + 1)
          /\ DOMAIN prior_counts' = 1..(Len(components) + 1)
          /\ \A c \in 1..Len(components) :
                /\ components'[c] = components[c]
                /\ prior_counts'[c] = prior_counts[c]
C4_ParallelLists == [](C4_LengthsAgree) /\ [][C4_Step]_vars
C4_Witness ==
    /\ calls.add = 2 /\ calls.data >= 1 /\ calls.mcmc >= 1
    /\ Len(components) = 2 /\ Len(prior_counts) = 2

\* C5: every mcmc call made while no row has been forwarded to the engine
\* emits the no-data warning, and runs all its iterations.
C5_WarnsWithoutData ==
    (last.op = "mcmc" /\ forwarded = <<>>) =>
        /\ last.warned
        /\ pc = "idle" => SampleCount = run.niter

\* C6: add_data with a table of the wrong column count, or with a negative
\* value in it, ends in an error and forwards no row to the engine.
Malformed(data) ==
    \/ data.ncol # 3
    \/ \E r \in 1..Len(data.rows) : \E c \in 1..data.ncol : data.rows[r][c] < 0
C6_MalformedRejected ==
    (last.op = "add_data" /\ Malformed(last.data)) =>
        last.result # "ok" /\ last.sent = 0

\* C7: after a completed mcmc run, for every recorded row r and component c,
\* means[r][c] = a / (a + b) and sample_sizes[r][c] = a + b, where (a, b) is
\* the shape of engine component c in iteration r.
C7_DerivedViews ==
    McmcCompleted =>
        /\ means.error = "none"
        /\ sample_sizes.error = "none"
        /\ \A r \in 1..run.niter : \A c \in 1..number_of_mixture_components :
              LET shape == PosteriorShape(DrawAt(r), c)
              IN  /\ means.value.cell[r][c] = MeanOf(shape[1], shape[2])
                  /\ sample_sizes.value.cell[r][c] = shape[1] + shape[2]

\* C8: the engine model is built at most once: there is none before the first
\* add_data or mcmc call, the first of them builds it, every later call uses
\* that same instance, and it holds every row forwarded so far.
C8_BuiltOnce ==
    /\ builds <= 1
    /\ boom_model.exists <=> (calls.data + calls.mcmc > 0)
    /\ boom_model.exists <=> builds = 1
    /\ boom_model.exists => boom_model.id = 1
    /\ boom_model.data = forwarded
C8_Witness ==
    /\ McmcCompleted /\ run.niter >= 1
    /\ calls.data >= 1 /\ calls.mcmc = 2
    /\ forwarded # <<>> /\ boom_model.data = forwarded

\* C9: mcmc(N) performs exactly N sample_posterior steps; the storage is
\* allocated (and the seed applied) before the first step; step n is
\* followed by the copy of the engine's state into row n before step n + 1.
LoopEvents ==
    SubSeq(trace, IF Len(trace) >= 2 /\ trace[2].ev = "seed" THEN 3 ELSE 2,
           Len(trace))
C9_SequentialSteps ==
    /\ (pc # "idle") =>
          /\ trace[1] = Event("create_storage", run.niter, 0)
          /\ mixing_weights.tag = "array" /\ mixing_weights.nrow = run.niter
    /\ McmcEnded =>
          /\ trace[1] = Event("create_storage", run.niter, 0)
          /\ SampleCount = run.niter
          /\ Len(LoopEvents) = 2 * run.niter
          /\ \A n \in 0..(run.niter - 1) :
                /\ LoopEvents[2 * n + 1].ev = "sample"
                /\ LoopEvents[2 * n + 1].i = n
                /\ LoopEvents[2 * n + 2] = Event("record", n, 0)
                /\ \A c \in 1..Len(components) :
                      components[c].draws.cell[n + 1] =
                          PosteriorShape(LoopEvents[2 * n + 1].d, c)
                /\ \A c \in 1..mixing_weights.ncol :
                      mixing_weights.cell[n + 1][c] =
                          PosteriorWeight(LoopEvents[2 * n + 1].d, c)

\* C10: whenever the engine model exists it has number_of_mixture_components
\* components and as many mixing weights, so _record_draw finds every
\* component it reads and the weight vector fits the weight table's row.
C10_EngineMatchesDriver ==
    boom_model.exists =>
        /\ Len(boom_model.components) = number_of_mixture_components
        /\ Len(boom_model.probs) = number_of_mixture_components
        /\ pc = "record" =>
              /\ \A c \in 1..Len(components) : HasComponent(boom_model, c)
              /\ Len(boom_model.probs) = mixing_weights.ncol

\* ----------------------------------------------------- supporting lemmas
\* The derived views do work on a driver without components: after a completed
\* run they are arrays of run.niter rows and no column.
Lemma_ViewsWithoutComponents ==
    (McmcCompleted /\ number_of_mixture_components = 0) =>
        \A v \in 1..Len(Views) :
            /\ Views[v].error = "none"
            /\ Views[v].value.nrow = run.niter
            /\ Views[v].value.ncol = 0

\* A run on an engine model that has the driver's number of components
\* always completes, with one sample_posterior step per iteration.
Lemma_RunCompletesWhenEngineMatches ==
    (McmcEnded /\ Len(boom_model.components) = Len(components)) =>
        /\ last.result = "ok"
        /\ SampleCount = run.niter
        /\ Len(LoopEvents) = 2 * run.niter

\* The warning is emitted by exactly the mcmc calls that build the model.
Lemma_WarnsIffBuilt ==
    last.op = "mcmc" => (last.warned <=> (calls.data = 0 /\ calls.mcmc = 1))

====
